---- MODULE Spec2Model ----
(* NKLandscape (src/src/nk-landscape.py): the landscape object, its       *)
(* constructor, the dependency-matrix validation, the setters, the        *)
(* solution sampler and the fitness evaluation.                           *)
(*                                                                        *)
(* Arrays are functions over 0..len-1, as numpy indexes them.  An         *)
(* optional argument is <<>> (None) or <<v>>.  Real fitness values are    *)
(* modelled by integers.                                                  *)
EXTENDS Integers, Sequences, FiniteSets, TLC

\* ---------------------------------------------------------------- bounds
MaxN == 3
MaxEvalN == 5
NegK == 2
MaxNum == 1
NegNum == 1

VARIABLES constructed, N, K, dependency_matrix, fitness_mapping, globalK,
          solution, op, err, result, argN, argK, argM, argF, argNum, argS,
          rolled, decimals

vars == <<constructed, N, K, dependency_matrix, fitness_mapping, globalK,
          solution, op, err, result, argN, argK, argM, argF, argNum, argS,
          rolled, decimals>>

None == <<>>

\* ------------------------------------------------------- array helpers
Rows(M) == Cardinality(DOMAIN M)

Cols(M) == IF Rows(M) = 0 THEN 0 ELSE Cardinality(DOMAIN M[0])

Shape(M) == <<Rows(M), Cols(M)>>

RECURSIVE SumTo(_, _)
\* f[0] + ... + f[n-1]
SumTo(f, n) == IF n <= 0 THEN 0 ELSE SumTo(f, n - 1) + f[n - 1]

RowSum(M, r) == SumTo(M[r], Cols(M))

MatrixSum(M) == SumTo([r \in DOMAIN M |-> RowSum(M, r)], Rows(M))

Trace(M) == SumTo([r \in DOMAIN M |-> M[r][r]], Rows(M))

RECURSIVE Pow2(_)
\* 2**e for e >= 0
Pow2(e) == IF e <= 0 THEN 1 ELSE 2 * Pow2(e - 1)

\* numpy.eye(n, k=k): ones on the k-th diagonal
Eye(n, k) == [r \in 0..(n - 1) |-> [c \in 0..(n - 1) |-> IF c - r = k THEN 1 ELSE 0]]

MatAdd(A, B) == [r \in DOMAIN A |-> [c \in DOMAIN A[r] |-> A[r][c] + B[r][c]]]

\* ------------------------------- _construct_sequential_dependency_matrix
RECURSIVE SequentialLoop(_, _, _, _)
\* the state of dependency_matrix after the loop ran offsets offset..k-1
SequentialLoop(dm, n, k, offset) ==
    IF offset >= k THEN dm
    ELSE SequentialLoop(
           MatAdd(dm, MatAdd(Eye(n, offset + 1), Eye(n, -(n - (offset + 1))))),
           n, k, offset + 1)

construct_sequential_dependency_matrix_nowrap(n, k) ==
    LET Loop[o \in 0..(IF k > 0 THEN k ELSE 0)] ==
            IF o = 0 THEN Eye(n, 0) ELSE MatAdd(Loop[o - 1], Eye(n, o))
    IN  Loop[IF k > 0 THEN k ELSE 0]

construct_sequential_dependency_matrix(n, k) ==
    IF k > 0 THEN SequentialLoop(Eye(n, 0), n, k, 0) ELSE Eye(n, 0)

\* ------------------------------------------------ _check_dependency_matrix
AsBool(x) == IF x # 0 THEN 1 ELSE 0

\* The exception _check_dependency_matrix raises, "none" when it returns.
\* Line 84 reads the module-level name K, not self.K: gk is that global,
\* None when the name is not bound (NameError).
check_dependency_matrix(dm, n, k, gk) ==
    IF Shape(dm) # <<n, n>> THEN "ValueError"
    ELSE IF \E r \in DOMAIN dm : \E c \in DOMAIN dm[r] : dm[r][c] # AsBool(dm[r][c])
         THEN "ValueError"
    ELSE IF Trace(dm) # n THEN "ValueError"
    ELSE IF gk = None THEN "NameError"
    ELSE IF gk[1] = 0 /\ MatrixSum(dm) # n THEN "ValueError"
    ELSE IF \E r \in DOMAIN dm : RowSum(dm, r) # k + 1 THEN "ValueError"
    ELSE "none"


\* ------------------------------------------------------ _binary_to_decimal
\* binary is the gathered substring, a sequence here (binary[j+1] is the
\* element numpy calls binary[j]).
binary_to_decimal_lsb(binary) ==
    LET len == Len(binary)
        Loop[i \in 0..len] ==
            IF i = 0 THEN 0 ELSE Loop[i - 1] + binary[i] * Pow2(i - 1)
    IN  Loop[len]

binary_to_decimal_shifted(binary) ==
    LET len == Len(binary)
        Loop[i \in 0..len] ==
            IF i = 0 THEN 0
            ELSE Loop[i - 1] + binary[(len - (i - 1) - 1) + 1] * Pow2(i)
    IN  Loop[len]

binary_to_decimal(binary) ==
    LET len == Len(binary)
        \* Loop[i] is decimal after the iterations 0..i-1
        Loop[i \in 0..len] ==
            IF i = 0 THEN 0
            ELSE Loop[i - 1] + binary[(len - (i - 1) - 1) + 1] * Pow2(i - 1)
    IN  Loop[len]

\* -------------------------------------------------------- calculate_fitness
RECURSIVE ArgwhereFrom(_, _, _)
\* numpy.argwhere(a == v).T[0] restricted to the indices c..len-1
ArgwhereFrom(a, v, c) ==
    IF c >= Cardinality(DOMAIN a) THEN <<>>
    ELSE (IF a[c] = v THEN <<c>> ELSE <<>>) \o ArgwhereFrom(a, v, c + 1)

\* numpy.argwhere(a == v).T[0]: the ascending indices where a equals v
Argwhere(a, v) == ArgwhereFrom(a, v, 0)

\* Argwhere on a sequence; positions are reported 0-based as numpy does
ArgwhereSeq(s, v) == Argwhere([j \in 0..(Len(s) - 1) |-> s[j + 1]], v)

roll_unshifted(s, shift) == s

\* numpy.roll(s, shift): element j moves to position (j + shift) mod len
roll(s, shift) ==
    IF Len(s) = 0 THEN s
    ELSE [j \in 1..Len(s) |-> s[(((j - 1) - shift) % Len(s)) + 1]]

\* One iteration of the loop of calculate_fitness, for row i.
RowEval(dm, fm, sol, i) ==
    IF i \notin DOMAIN dm
    THEN [err |-> "IndexError", rolled |-> <<>>, decimal |-> 0, value |-> 0]
    ELSE
    LET dependency_indicies == Argwhere(dm[i], 1)
        self == ArgwhereSeq(dependency_indicies, i)
    IN  IF self = <<>>
        THEN [err |-> "IndexError", rolled |-> <<>>, decimal |-> 0, value |-> 0]
        ELSE
        LET rolled_dependency_indicies == roll(dependency_indicies, -self[1])
        IN  IF \E j \in DOMAIN rolled_dependency_indicies :
                   rolled_dependency_indicies[j] \notin DOMAIN sol
            THEN [err |-> "IndexError", rolled |-> rolled_dependency_indicies,
                  decimal |-> 0, value |-> 0]
            ELSE
            LET substring == [j \in DOMAIN rolled_dependency_indicies |->
                                 sol[rolled_dependency_indicies[j]]]
                decimal == binary_to_decimal(substring)
            IN  IF i \notin DOMAIN fm \/ decimal \notin DOMAIN fm[i]
                THEN [err |-> "IndexError", rolled |-> rolled_dependency_indicies,
                      decimal |-> decimal, value |-> 0]
                ELSE [err |-> "none", rolled |-> rolled_dependency_indicies,
                      decimal |-> decimal, value |-> fm[i][decimal]]

\* The whole loop: rows[i+1] is iteration i; the loop stops at the first
\* iteration that raises.
calculate_fitness(dm, fm, sol, n) ==
    LET rows == [i \in 1..n |-> RowEval(dm, fm, sol, i - 1)]
        bad == {i \in 1..n : rows[i].err # "none"}
        last == IF bad = {} THEN n ELSE CHOOSE i \in bad : \A j \in bad : i <= j
        fitness == SumTo([i \in 0..(n - 1) |-> rows[i + 1].value], n)
    IN  [err |-> IF bad = {} THEN "none" ELSE "IndexError",
         fitness |-> IF bad = {} THEN <<fitness>> ELSE <<>>,
         rolled |-> [i \in 1..last |-> rows[i].rolled],
         decimals |-> [i \in 1..last |-> rows[i].decimal]]

\* ------------------------------------------------------------------ inputs
NInputs == 1..MaxN

\* the lengths of the landscapes SpecEval evaluates
EvalNInputs == 1..MaxEvalN

AllN == NInputs \cup EvalNInputs

KInputs == (-NegK)..MaxN

EvalKInputs == (-NegK)..(MaxEvalN - 1)

AllK == KInputs \cup EvalKInputs

\* the module-level name K that line 84 reads: unbound (the module binds
\* none), or bound by whoever runs the file; the code only compares it with 0
GlobalKInputs == {None, <<0>>, <<1>>}

NumInputs == {None} \cup {<<m>> : m \in (-NegNum)..MaxNum}

\* row r has ones at the columns (r + o) mod n, o in S
Circulant(n, S) ==
    [r \in 0..(n - 1) |-> [c \in 0..(n - 1) |-> IF ((c - r) % n) \in S THEN 1 ELSE 0]]

\* even rows as Circulant, odd rows with the offsets taken backwards
Mirror(n, S) ==
    [r \in 0..(n - 1) |-> [c \in 0..(n - 1) |->
        IF (IF r % 2 = 0 THEN (c - r) % n ELSE (r - c) % n) \in S THEN 1 ELSE 0]]

\* M with the entry at (r, c) replaced by v
WithEntry(M, r, c, v) == [M EXCEPT ![r] = [M[r] EXCEPT ![c] = v]]

\* M with a column of zeros appended / a row of zeros appended
Wide(M, n) == [r \in 0..(n - 1) |-> [c \in 0..n |-> IF c < n THEN M[r][c] ELSE 0]]

Tall(M, n) == [r \in 0..n |-> [c \in 0..(n - 1) |-> IF r < n THEN M[r][c] ELSE 0]]

SelfOffsets(n) == {S \in SUBSET (0..(n - 1)) : 0 \in S}

\* The matrices a caller passes for a landscape of length n: the circulant
\* 0/1 matrices with an all-ones diagonal and two without, non-circulant ones
\* with an all-ones diagonal, sequential ones with one entry of row 0 flipped,
\* non-binary ones and ones of another shape.
MatrixInputsFor(n) ==
    {Circulant(n, S) : S \in SelfOffsets(n) \cup {{}, {1 % n}}}
      \cup {Mirror(n, S) : S \in SelfOffsets(n)}
      \cup {WithEntry(Circulant(n, 0..k), 0, n - 1, 1 - Circulant(n, 0..k)[0][n - 1]) :
              k \in 0..(n - 1)}
      \cup {IF n = 1 THEN WithEntry(Eye(n, 0), 0, 0, 2)
            ELSE WithEntry(WithEntry(Eye(n, 0), 0, 0, 2), n - 1, n - 1, 0),
            WithEntry(Eye(n, 0), 0, n - 1, -1),
            Wide(Eye(n, 0), n), Tall(Eye(n, 0), n)}

\* the table of the matrix inputs, by n
MatrixInputs == [n \in AllN |-> MatrixInputsFor(n)]

\* Fitness tables of n rows and cols columns.
\* Pref: 1 when the leading bit of the pattern is the row's preferred value.
Pref(n, cols) ==
    [i \in 0..(n - 1) |-> [d \in 0..(cols - 1) |->
        IF (2 * d >= cols) = (i % 2 = 0) THEN 1 ELSE 0]]

Alt(n, cols) == [i \in 0..(n - 1) |-> [d \in 0..(cols - 1) |-> ((i + 2 * d) % 3) - 1]]

\* every entry names its own cell
Code(n, cols) == [i \in 0..(n - 1) |-> [d \in 0..(cols - 1) |-> i * cols + d + 1]]

\* numpy.random.uniform(-1, 1, (n, cols)): the tables it may return here
UniformDraws(n, cols) == {Pref(n, cols), Alt(n, cols)}

\* what a caller passes as fitness_mapping: tables of the documented shape
\* (n, 2^(K+1)) and one of the shape (n, 2^K) the class docstring names
MappingInputsFor(n, k) ==
    IF k + 1 < 0 THEN {Code(n, 1)}
    ELSE UniformDraws(n, Pow2(k + 1))
           \cup {Code(n, Pow2(k + 1)), Code(n, Pow2(k))}

MappingInputs == [n \in AllN |-> [k \in AllK |-> MappingInputsFor(n, k)]]

BinaryVectorsFor(n) == [0..(n - 1) -> {0, 1}]

BinaryVectors == [n \in AllN |-> BinaryVectorsFor(n)]

\* ----------------------------------------------------------------- actions
Init ==
    /\ constructed = FALSE
    /\ N = 0
    /\ K = 0
    /\ dependency_matrix = None
    /\ fitness_mapping = None
    /\ globalK \in GlobalKInputs
    /\ solution = None
    /\ op = "init"
    /\ err = "none"
    /\ result = None
    /\ argN = None
    /\ argK = None
    /\ argM = None
    /\ argF = None
    /\ argNum = None
    /\ argS = None
    /\ rolled = <<>>
    /\ decimals = <<>>

\* The exception __init__ raises ("none": it returns) for the arguments
\* N=n, K=k, dependency_matrix=m, fitness_mapping=f, each None or <<value>>.
init_error(n, k, m, f) ==
    IF n = None THEN "ValueError"
    ELSE IF k = None THEN "ValueError"
    ELSE IF k[1] >= n[1] THEN "ValueError"
    ELSE IF m # None /\ check_dependency_matrix(m[1], n[1], k[1], globalK) # "none"
         THEN check_dependency_matrix(m[1], n[1], k[1], globalK)
    \* 2**(K+1) is a float when K+1 < 0, and no array size
    ELSE IF f = None /\ k[1] + 1 < 0 THEN "TypeError"
    ELSE "none"

\* NKLandscape(N=n, K=k, dependency_matrix=m, fitness_mapping=f); draw is
\* what numpy.random.uniform returns when f is None.  A constructor that
\* raises leaves no object, and the run ends there.
Construct(n, k, m, f, draw) ==
    /\ op = "init"
    /\ op' = "construct"
    /\ argN' = n
    /\ argK' = k
    /\ argM' = m
    /\ argF' = f
    /\ err' = init_error(n, k, m, f)
    /\ IF init_error(n, k, m, f) = "none"
       THEN /\ constructed' = TRUE
            /\ N' = n[1]
            /\ K' = k[1]
            /\ dependency_matrix' =
                 IF m = None THEN construct_sequential_dependency_matrix(n[1], k[1])
                 ELSE m[1]
            /\ fitness_mapping' = IF f = None THEN draw ELSE f[1]
       ELSE UNCHANGED <<constructed, N, K, dependency_matrix, fitness_mapping>>
    /\ result' = None
    /\ argNum' = None
    /\ rolled' = <<>>
    /\ decimals' = <<>>
    /\ solution' = None
    /\ argS' = None
    /\ UNCHANGED globalK

\* the constructor with every argument the model passes
ConstructAny ==
    \E n \in {None} \cup {<<x>> : x \in NInputs} :
    \E k \in {None} \cup {<<x>> : x \in KInputs} :
    \E m \in {None} \cup (IF n = None THEN {} ELSE {<<x>> : x \in MatrixInputs[n[1]]}) :
    \E f \in {None} \cup (IF n = None \/ k = None THEN {}
                          ELSE {<<x>> : x \in MappingInputs[n[1]][k[1]]}) :
    \E draw \in (IF n = None \/ k = None \/ f # None \/ k[1] + 1 < 0 THEN {None}
                 ELSE UniformDraws(n[1], Pow2(k[1] + 1))) :
        Construct(n, k, m, f, draw)

\* set_dependency_matrix(m): assigns, then validates
set_dependency_matrix(m) ==
    /\ constructed
    /\ op' = "set_dependency_matrix"
    /\ argM' = <<m>>
    /\ dependency_matrix' = m
    /\ err' = check_dependency_matrix(m, N, K, globalK)
    /\ result' = None
    /\ argN' = None
    /\ argK' = None
    /\ argF' = None
    /\ argNum' = None
    /\ rolled' = <<>>
    /\ decimals' = <<>>
    /\ solution' = None
    /\ argS' = None
    /\ UNCHANGED <<constructed, N, K, fitness_mapping, globalK>>

SetDependencyMatrixAny ==
    constructed /\ \E m \in MatrixInputs[N] : set_dependency_matrix(m)

\* set_fitness_mapping(f): no validation
set_fitness_mapping(f) ==
    /\ constructed
    /\ op' = "set_fitness_mapping"
    /\ argF' = <<f>>
    /\ fitness_mapping' = f
    /\ err' = "none"
    /\ result' = None
    /\ argN' = None
    /\ argK' = None
    /\ argM' = None
    /\ argNum' = None
    /\ rolled' = <<>>
    /\ decimals' = <<>>
    /\ solution' = None
    /\ argS' = None
    /\ UNCHANGED <<constructed, N, K, dependency_matrix, globalK>>

SetFitnessMappingAny ==
    constructed /\ \E f \in MappingInputs[N][K] : set_fitness_mapping(f)

generate_solutions_error_none_only(num) ==
    IF num = None THEN "ValueError" ELSE "none"

\* The exception generate_solutions(num) raises: its own check for None, and
\* numpy.random.randint's ValueError for a negative dimension in size.
generate_solutions_error(num) ==
    IF num = None THEN "ValueError"
    ELSE IF num[1] < 0 THEN "ValueError"
    ELSE "none"

\* generate_solutions(num): result is the shape of the array
\* numpy.random.randint(2, size=(num, N)) returns; its entries are random bits.
generate_solutions(num) ==
    /\ constructed
    /\ op' = "generate_solutions"
    /\ argNum' = num
    /\ err' = generate_solutions_error(num)
    /\ result' = IF generate_solutions_error(num) = "none" THEN <<num[1], N>> ELSE None
    /\ argN' = None
    /\ argK' = None
    /\ argM' = None
    /\ argF' = None
    /\ rolled' = <<>>
    /\ decimals' = <<>>
    /\ solution' = None
    /\ argS' = None
    /\ UNCHANGED <<constructed, N, K, dependency_matrix, fitness_mapping, globalK>>

GenerateSolutionsAny == \E num \in NumInputs : generate_solutions(num)

CalculateFitnessWriting(s) ==
    /\ constructed
    /\ op' = "calculate_fitness"
    /\ argS' = s
    /\ \E r \in {calculate_fitness(dependency_matrix, fitness_mapping, s, N)} :
           /\ err' = r.err
           /\ result' = r.fitness
           /\ rolled' = r.rolled
           /\ decimals' = r.decimals
    /\ solution' = [j \in DOMAIN s |-> 0]
    /\ argN' = None
    /\ argK' = None
    /\ argM' = None
    /\ argF' = None
    /\ argNum' = None
    /\ UNCHANGED <<constructed, N, K, dependency_matrix, fitness_mapping, globalK>>

\* calculate_fitness(s): argS is the array as the caller passed it, solution
\* the caller's array after the call; rolled and decimals are the values of
\* rolled_dependency_indicies and decimal in each iteration.
CalculateFitness(s) ==
    /\ constructed
    /\ op' = "calculate_fitness"
    /\ argS' = s
    /\ \E r \in {calculate_fitness(dependency_matrix, fitness_mapping, s, N)} :
           /\ err' = r.err
           /\ result' = r.fitness
           /\ rolled' = r.rolled
           /\ decimals' = r.decimals
    /\ solution' = s
    /\ argN' = None
    /\ argK' = None
    /\ argM' = None
    /\ argF' = None
    /\ argNum' = None
    /\ UNCHANGED <<constructed, N, K, dependency_matrix, fitness_mapping, globalK>>

CalculateFitnessAny == constructed /\ \E s \in BinaryVectors[N] : CalculateFitness(s)

Next ==
    \/ ConstructAny
    \/ SetDependencyMatrixAny
    \/ SetFitnessMappingAny
    \/ GenerateSolutionsAny
    \/ CalculateFitnessAny

Spec == Init /\ [][Next]_vars

\* ------------------------------------------- the evaluation on its own
\* A landscape as the operations above leave it: any N, any K < N, any
\* matrix set_dependency_matrix assigned (validated or not), and a table
\* just assigned by set_fitness_mapping; solution is the array the caller
\* is about to pass.  calculate_fitness never reads the module-level K,
\* which is unbound in the module as written.
InitEval ==
    /\ constructed = TRUE
    /\ N \in EvalNInputs
    /\ K \in {k \in EvalKInputs : k < N}
    /\ dependency_matrix \in MatrixInputs[N]
    /\ fitness_mapping \in MappingInputs[N][K]
    /\ globalK = None
    /\ solution \in BinaryVectors[N]
    /\ op = "set_fitness_mapping"
    /\ err = "none"
    /\ result = None
    /\ argN = None
    /\ argK = None
    /\ argM = None
    /\ argF = <<fitness_mapping>>
    /\ argNum = None
    /\ argS = None
    /\ rolled = <<>>
    /\ decimals = <<>>

NextEval == CalculateFitness(solution)

SpecEval == InitEval /\ [][NextEval]_vars

\* ============================================================ properties
\* The data-model invariants of a dependency matrix, stated on their own.
ValidDependencyMatrix(dm, n, k) ==
    /\ DOMAIN dm = 0..(n - 1)
    /\ \A r \in DOMAIN dm : DOMAIN dm[r] = 0..(n - 1)
    /\ \A r \in DOMAIN dm : \A c \in DOMAIN dm[r] : dm[r][c] \in {0, 1}
    /\ \A r \in DOMAIN dm : dm[r][r] = 1
    /\ \A r \in DOMAIN dm : Cardinality({c \in DOMAIN dm[r] : dm[r][c] = 1}) = k + 1

HasMappingShape(fm, n, cols) ==
    /\ DOMAIN fm = 0..(n - 1)
    /\ \A i \in DOMAIN fm : DOMAIN fm[i] = 0..(cols - 1)

RECURSIVE Ascending(_)
\* the elements of a finite set of integers, ascending
Ascending(S) ==
    IF S = {} THEN <<>>
    ELSE LET m == CHOOSE x \in S : \A y \in S : x <= y
         IN  <<m>> \o Ascending(S \ {m})

\* self first, then the marked columns above i ascending, then those below
SelfFirstOrder(dm, i) ==
    <<i>> \o Ascending({c \in DOMAIN dm[i] : c > i /\ dm[i][c] = 1})
          \o Ascending({c \in DOMAIN dm[i] : c < i /\ dm[i][c] = 1})

RECURSIVE MsbFirstValue(_)
\* the binary value of a bit sequence, first bit most significant
MsbFirstValue(bits) ==
    IF bits = <<>> THEN 0
    ELSE 2 * MsbFirstValue(SubSeq(bits, 1, Len(bits) - 1)) + bits[Len(bits)]

ReferenceIndex(dm, sol, i) ==
    MsbFirstValue([j \in DOMAIN SelfFirstOrder(dm, i) |-> sol[SelfFirstOrder(dm, i)[j]]])

RECURSIVE ReferenceFitnessTo(_, _, _, _)
ReferenceFitnessTo(dm, fm, sol, n) ==
    IF n = 0 THEN 0
    ELSE ReferenceFitnessTo(dm, fm, sol, n - 1)
           + fm[n - 1][ReferenceIndex(dm, sol, n - 1)]

ExampleMapping ==
    (0 :> (0 :> 0 @@ 1 :> 1)) @@ (1 :> (0 :> 1 @@ 1 :> 0))
      @@ (2 :> (0 :> 0 @@ 1 :> 1)) @@ (3 :> (0 :> 1 @@ 1 :> 0))

ExampleSolution == (0 :> 1) @@ (1 :> 0) @@ (2 :> 1) @@ (3 :> 0)

IsExample ==
    /\ N = 4
    /\ K = 0
    /\ dependency_matrix = Eye(4, 0)
    /\ fitness_mapping = ExampleMapping
    /\ argS = ExampleSolution

\* C1: on a landscape whose dependency matrix satisfies the data-model
\* invariants (and whose table has the documented shape N x 2^(K+1)),
\* calculate_fitness returns the sum over i of fitness_mapping[i, d_i], d_i
\* the most-significant-bit-first value of the solution bits at row i's
\* indices ordered self-first; N=4, K=0, mapping [[0,1],[1,0],[0,1],[1,0]]
\* and solution [1,0,1,0] give 4.
C1_FitnessIsSumOfLookups ==
    /\ (op = "calculate_fitness"
          /\ ValidDependencyMatrix(dependency_matrix, N, K)
          /\ HasMappingShape(fitness_mapping, N, Pow2(K + 1)))
         => /\ err = "none"
            /\ result = <<ReferenceFitnessTo(dependency_matrix, fitness_mapping, argS, N)>>
    /\ (op = "calculate_fitness" /\ IsExample) => result = <<4>>

C1_Witness == op = "calculate_fitness" /\ IsExample /\ result = <<4>>

\* C2: for 0 <= K < N, construction without a dependency matrix does not
\* raise and row i of the matrix has a 1 exactly at the columns (i+o) mod N,
\* o in 0..K: the diagonal is all ones, every row sums to K+1, and for K=0
\* the matrix is the identity.
C2_DefaultMatrixIsSequential ==
    (op = "construct" /\ argN # None /\ argK # None /\ argM = None
       /\ 0 <= argK[1] /\ argK[1] < argN[1])
      => /\ err = "none"
         /\ constructed
         /\ DOMAIN dependency_matrix = 0..(N - 1)
         /\ \A i \in 0..(N - 1) :
              /\ DOMAIN dependency_matrix[i] = 0..(N - 1)
              /\ \A c \in 0..(N - 1) :
                   dependency_matrix[i][c] =
                     IF \E o \in 0..K : c = (i + o) % N THEN 1 ELSE 0
              /\ dependency_matrix[i][i] = 1
              /\ RowSum(dependency_matrix, i) = K + 1
         /\ K = 0 => \A i, c \in 0..(N - 1) :
                       dependency_matrix[i][c] = IF i = c THEN 1 ELSE 0

C2_Witness ==
    /\ op = "construct"
    /\ argM = None
    /\ err = "none"
    /\ N = 3
    /\ K = 1
    /\ dependency_matrix[2][0] = 1

\* C3: for 0 <= K < N, construct(N, K, dependency_matrix=M) succeeds,
\* holding M, exactly when M has shape (N,N), entries 0 or 1, an all-ones
\* diagonal and rows summing to K+1; for every other M it fails with
\* ValueError.
C3_ConstructAcceptsExactlyValid ==
    (op = "construct" /\ argN # None /\ argK # None /\ argM # None
       /\ 0 <= argK[1] /\ argK[1] < argN[1])
      => IF ValidDependencyMatrix(argM[1], argN[1], argK[1])
         THEN err = "none" /\ constructed /\ dependency_matrix = argM[1]
         ELSE err = "ValueError"

\* C4: construct(N, K) with no matrix and no mapping succeeds exactly when
\* 0 <= K <= N-1; every K >= N is rejected with ValueError and every
\* negative K is rejected.
C4_ConstructAcceptsExactlyKInRange ==
    (op = "construct" /\ argN # None /\ argK # None /\ argM = None /\ argF = None)
      => /\ (err = "none") <=> (0 <= argK[1] /\ argK[1] <= argN[1] - 1)
         /\ argK[1] >= argN[1] => err = "ValueError"

\* C5: a set_dependency_matrix call that fails leaves the dependency matrix
\* the landscape held before the call.
C5_FailedSetterKeepsMatrix ==
    [][(op' = "set_dependency_matrix" /\ err' # "none")
          => dependency_matrix' = dependency_matrix]_vars

\* C6: in every state after a successful construct with 0 <= K < N the
\* dependency matrix has shape (N,N), entries in {0,1}, an all-ones diagonal
\* and rows that sum to K+1.
C6_HeldMatrixAlwaysValid ==
    (constructed /\ 0 <= K /\ K < N)
      => ValidDependencyMatrix(dependency_matrix, N, K)

\* C7 as stated: generate_solutions(num) fails with ValueError whenever num
\* is omitted, zero or negative.
C7_FailsUnlessPositive ==
    (op = "generate_solutions" /\ (argNum = None \/ argNum[1] <= 0))
      => err = "ValueError"

\* C7 amended: generate_solutions(num) fails with ValueError exactly when
\* num is omitted or negative; num = 0 returns an array of shape (0, N).
C7_FailsWhenOmittedOrNegative ==
    op = "generate_solutions"
      => /\ (err = "ValueError") <=> (argNum = None \/ argNum[1] < 0)
         /\ err \in {"none", "ValueError"}
         /\ (argNum # None /\ argNum[1] = 0) => (err = "none" /\ result = <<0, N>>)

C7_Witness ==
    /\ op = "generate_solutions"
    /\ argNum = None
    /\ err = "ValueError"

\* C8: calculate_fitness changes neither N, K, the dependency matrix, the
\* fitness mapping nor the caller's solution, and a second call with the
\* same solution right after returns the same value.
C8_CalculateFitnessHasNoSideEffects ==
    [][op' = "calculate_fitness"
         => /\ N' = N
            /\ K' = K
            /\ dependency_matrix' = dependency_matrix
            /\ fitness_mapping' = fitness_mapping
            /\ solution' = argS'
            /\ (op = "calculate_fitness" /\ argS = argS')
                 => (result' = result /\ err' = err)]_vars

C8_Witness ==
    /\ op = "calculate_fitness"
    /\ err = "none"
    /\ solution = argS
    /\ \E j \in DOMAIN argS : argS[j] = 1

\* C9: for every dependency matrix satisfying the invariants and every row
\* i, the index list calculate_fitness builds is a permutation of the K+1
\* columns where row i is 1, starts with i, and lists the others in
\* circular ascending order; N=3, K=1 with the default matrix gives [2,0]
\* for row 2.
C9_IndicesAreSelfFirst ==
    (op = "calculate_fitness" /\ ValidDependencyMatrix(dependency_matrix, N, K))
      => /\ err = "none" => Len(rolled) = N
         /\ \A i \in DOMAIN rolled :
              /\ rolled[i] = SelfFirstOrder(dependency_matrix, i - 1)
              /\ Len(rolled[i]) = K + 1
              /\ rolled[i][1] = i - 1
              /\ {rolled[i][j] : j \in DOMAIN rolled[i]}
                   = {c \in 0..(N - 1) : dependency_matrix[i - 1][c] = 1}
         /\ (N = 3 /\ K = 1 /\ 3 \in DOMAIN rolled
               /\ dependency_matrix = construct_sequential_dependency_matrix(3, 1))
              => rolled[3] = <<2, 0>>

C9_Witness ==
    /\ op = "calculate_fitness"
    /\ N = 4
    /\ K = 2
    /\ dependency_matrix = Mirror(4, {0, 1, 2})
    /\ Len(rolled) = 4
    /\ rolled[2] = <<1, 3, 0>>

\* C10: on a landscape with 0 <= K < N holding the default matrix and a
\* default mapping, every lookup index d_i of calculate_fitness is in
\* 0..2^(K+1)-1 and the evaluation completes without an out-of-range access.
C10_LookupIndicesInRange ==
    (op = "calculate_fitness" /\ 0 <= K /\ K < N
       /\ dependency_matrix = construct_sequential_dependency_matrix(N, K)
       /\ fitness_mapping \in UniformDraws(N, Pow2(K + 1)))
      => /\ err = "none"
         /\ Len(decimals) = N
         /\ \A i \in DOMAIN decimals :
              0 <= decimals[i] /\ decimals[i] <= Pow2(K + 1) - 1

C10_Witness ==
    /\ op = "calculate_fitness"
    /\ N = 3
    /\ K = 2
    /\ dependency_matrix = construct_sequential_dependency_matrix(3, 2)
    /\ fitness_mapping \in UniformDraws(3, 8)
    /\ err = "none"
    /\ decimals = <<7, 7, 7>>

====
